---------------------------- MODULE Spec2Model ----------------------------
(***************************************************************************)
(* A model of consoler's console.py: the Logger facade (leveled calls,     *)
(* buffer, progress) and the module-level decode helper.                   *)
(*                                                                         *)
(* Python values are records [k, s]: k is the type ("none", "text",        *)
(* "bytes") and s the content, a sequence of code points (text) or of byte *)
(* values (bytes).  A text literal such as 'NULL' is the sequence of its   *)
(* code points <<78, 85, 76, 76>>.                                         *)
(***************************************************************************)
EXTENDS Integers, Sequences, FiniteSets, TLC

VARIABLES
    CONSOLE_LOG_LEVEL,  \* settings.CONSOLE_LOG_LEVEL: a level name, or Unreadable
    DEBUG,              \* settings.DEBUG
    USE_GURU,           \* whether loguru could be imported
    spindex,            \* Logger.spindex
    writing_progress,   \* Logger.writing_progress
    terminal,           \* what the last call wrote to sys.stdout, in order
    guru,               \* the loguru calls the last call made, in order
    call,               \* the last call: its name, arguments and outcome
    nprogress,          \* history: progress calls made since construction
    val,                \* decode: the value under decoding
    decoded             \* decode: the results of the successive applications

vars == <<CONSOLE_LOG_LEVEL, DEBUG, USE_GURU, spindex, writing_progress,
          terminal, guru, call, nprogress, val, decoded>>

loggerVars == <<CONSOLE_LOG_LEVEL, DEBUG, USE_GURU, spindex, writing_progress,
                terminal, guru, call, nprogress>>

----------------------------------------------------------------------------
(* Bounds *)

\* longest text or bytes value handed to decode
MaxLen == 5

\* progress calls made in one behaviour
MaxProgress == 11

\* how far below 0 and above 100 the percents handed to progress reach
OverRange == 2

----------------------------------------------------------------------------
(* Python values *)

None == [k |-> "none", s |-> <<>>]

Text(s) == [k |-> "text", s |-> s]

Bytes(s) == [k |-> "bytes", s |-> s]

\* the code points of 'NULL' and of 'None', which is how None renders
NULL == <<78, 85, 76, 76>>

NoneWord == <<78, 111, 110, 101>>

\* str.strip() strips Python's whitespace code points
IsSpace(c) == c \in {9, 10, 11, 12, 13, 28, 29, 30, 31, 32, 133, 160}

RECURSIVE LStrip(_)
LStrip(s) ==
    IF s # <<>> /\ IsSpace(Head(s)) THEN LStrip(Tail(s)) ELSE s

RECURSIVE RStrip(_)
RStrip(s) ==
    IF s # <<>> /\ IsSpace(s[Len(s)]) THEN RStrip(SubSeq(s, 1, Len(s) - 1)) ELSE s

Strip(s) == RStrip(LStrip(s))

HexDigit(d) == IF d < 10 THEN 48 + d ELSE 87 + d

\* repr of one byte inside b'...' (the quote, the backslash and the control
\* characters with short escapes are kept out of ByteAlphabet)
ReprByte(b) ==
    IF b >= 32 /\ b <= 126
    THEN <<b>>
    ELSE <<92, 120, HexDigit(b \div 16), HexDigit(b % 16)>>

RECURSIVE ReprBytes(_)
ReprBytes(bs) ==
    IF bs = <<>> THEN <<>> ELSE ReprByte(Head(bs)) \o ReprBytes(Tail(bs))

\* str(v), which is also what '{}'.format(v) and f'{v}' render
Str(v) ==
    CASE v.k = "none" -> NoneWord
      [] v.k = "text" -> v.s
      [] v.k = "bytes" -> <<98, 39>> \o ReprBytes(v.s) \o <<39>>

\* Python truthiness: None, '' and b'' are falsy
Truthy(v) == v.k # "none" /\ v.s # <<>>

----------------------------------------------------------------------------
(* bytes.decode, for the one- and two-byte forms of UTF-8 (ByteAlphabet    *)
(* holds no lead byte of a longer form)                                    *)

IsCont(b) == b >= 128 /\ b <= 191

IsLead2(b) == b >= 194 /\ b <= 223

RECURSIVE Utf8Valid(_)
Utf8Valid(bs) ==
    IF bs = <<>> THEN TRUE
    ELSE IF Head(bs) < 128 THEN Utf8Valid(Tail(bs))
    ELSE IF IsLead2(Head(bs)) /\ Len(bs) >= 2 /\ IsCont(bs[2])
         THEN Utf8Valid(Tail(Tail(bs)))
    ELSE FALSE

RECURSIVE Utf8Decode(_)
Utf8Decode(bs) ==
    IF bs = <<>> THEN <<>>
    ELSE IF Head(bs) < 128 THEN <<Head(bs)>> \o Utf8Decode(Tail(bs))
    ELSE <<(Head(bs) - 192) * 64 + (bs[2] - 128)>> \o Utf8Decode(Tail(Tail(bs)))

\* latin-1 maps every byte to the code point of the same value: it never fails
Latin1Decode(bs) == bs

\* decode with the trimming of line 226 left out
decode_nostrip(v) ==
    IF v.k = "none" \/ Str(v) = <<>> THEN None
    ELSE IF Str(v) = NULL THEN None
    ELSE IF v.k = "bytes"
         THEN IF Utf8Valid(v.s) THEN Text(Utf8Decode(v.s))
              ELSE Text(Latin1Decode(v.s))
    ELSE v

\* decode(val): only bytes have a .decode method; on text the three attempts
\* raise AttributeError and val is returned as it came
decode(v) ==
    IF v.k = "none" \/ Str(v) = <<>> THEN None
    ELSE IF Strip(Str(v)) = NULL THEN None
    ELSE IF v.k = "bytes"
         THEN IF Utf8Valid(v.s) THEN Text(Utf8Decode(v.s))
              ELSE Text(Latin1Decode(v.s))
    ELSE v

----------------------------------------------------------------------------
(* The inputs of decode *)

\* space, L, N, U
TextAlphabet == {32, 76, 78, 85}

\* L, N, U, and the two bytes of U+00E9, each of them invalid on its own
ByteAlphabet == {76, 78, 85, 169, 195}

SeqsUpTo(A, n) == UNION {[1..m -> A] : m \in 0..n}

DecodeInputs ==
    {None} \cup {Text(s) : s \in SeqsUpTo(TextAlphabet, MaxLen)}
           \cup {Bytes(s) : s \in SeqsUpTo(ByteAlphabet, MaxLen - 1)}


----------------------------------------------------------------------------
(* Module constants and the collaborators console.py imports *)

LOG_LEVELS ==
    [LOG |-> 0, INFO |-> 1, SUCCESS |-> 2, TEMPLATE |-> 3, WARN |-> 4, ERROR |-> 5]

LevelNames == DOMAIN LOG_LEVELS

CLEAR == "\\033[K"

\* colours.py wraps a string in the escape codes of one colour
blue(x) == [colour |-> "blue", text |-> x]

cyan(x) == [colour |-> "cyan", text |-> x]

green(x) == [colour |-> "green", text |-> x]

magenta(x) == [colour |-> "magenta", text |-> x]

orange(x) == [colour |-> "orange", text |-> x]

red(x) == [colour |-> "red", text |-> x]

bg_blue(x) == [colour |-> "bg_blue", text |-> x]

\* reading settings.CONSOLE_LOG_LEVEL raises
Unreadable == "<raises>"

\* a value of settings.CONSOLE_LOG_LEVEL that is no key of LOG_LEVELS
UnknownLevel == "VERBOSE"

ConfigLevels == LevelNames \cup {Unreadable, UnknownLevel}

\* python's s * n: the empty string when n <= 0
Repeat(x, n) == [i \in 1..n |-> x]

----------------------------------------------------------------------------
(* Logger: the helpers *)

\* lines 69-72 with 'ERROR' as the fallback
level_str_error == IF CONSOLE_LOG_LEVEL = Unreadable THEN "ERROR" ELSE CONSOLE_LOG_LEVEL

\* lines 69-72: the configured level, 'WARN' when reading it raises
level_str == IF CONSOLE_LOG_LEVEL = Unreadable THEN "WARN" ELSE CONSOLE_LOG_LEVEL

\* line 73: LOG_LEVELS[level_str] raises KeyError
RaisesKeyError == level_str \notin LevelNames

\* a check that lets every level through
_check_log_level_always(called_level) == TRUE

_check_log_level(called_level) ==
    LOG_LEVELS[called_level] >= LOG_LEVELS[level_str]

\* frames: the number of frames inspect.getouterframes returns; frame[1] is
\* the caller's, and with one frame only frame[1] raises IndexError
_get_code_position(frames) ==
    IF frames >= 2 THEN "path_prefix+filename:lineno" ELSE "shrug"

_ts == magenta("H:mm:ss")

Prefix(tag, pos) == [ts |-> _ts, tag |-> tag, pos |-> pos]

\* print('{}\n> {} {}'.format(...)): one line on sys.stdout, which is the
\* stream self.terminal was bound to
_output(prefix, msg, extra) ==
    <<[kind |-> "print", prefix |-> prefix, msg |-> Str(decode(msg)),
       extra |-> IF Truthy(extra) THEN Str(extra) ELSE <<>>]>>

\* the f-string handed to loguru: f'{prefix} - {msg} - {extra}'
GuruCall(method, prefix, msg, extra) ==
    <<[method |-> method, prefix |-> prefix, msg |-> Str(msg), extra |-> Str(extra)]>>

\* forwarding that ignores settings.DEBUG
GuruEnabled_nodebug == USE_GURU

\* USE_GURU and settings.DEBUG is False
GuruEnabled == USE_GURU /\ DEBUG = FALSE

StackDepths == {1, 2}

Call(op, msg, extra, perc) ==
    [op |-> op, msg |-> msg, extra |-> extra, perc |-> perc,
     outcome |-> IF RaisesKeyError THEN "KeyError" ELSE "returned"]

\* what no leveled method and no buffer call touches
LoggerStateUnchanged ==
    UNCHANGED <<CONSOLE_LOG_LEVEL, DEBUG, USE_GURU, spindex, writing_progress,
                nprogress, val, decoded>>

----------------------------------------------------------------------------
(* Logger: the public methods *)

buffer(msg) ==
    /\ call' = [op |-> "buffer", msg |-> msg, extra |-> None, perc |-> 0,
                outcome |-> "returned"]
    /\ terminal' = <<[kind |-> "write", text |-> msg], [kind |-> "flush"]>>
    /\ guru' = <<>>
    /\ LoggerStateUnchanged

log(msg, extra) ==
    /\ call' = Call("log", msg, extra, 0)
    /\ IF RaisesKeyError \/ ~_check_log_level("LOG")
       THEN terminal' = <<>> /\ guru' = <<>>
       ELSE \E frames \in StackDepths :
              LET prefix == Prefix(cyan("LOG"), _get_code_position(frames))
              IN  /\ terminal' = _output(prefix, msg, extra)
                  /\ guru' = <<>>
    /\ LoggerStateUnchanged

\* info with the echo of log and warn added
info_echo(msg, extra) ==
    /\ call' = Call("info", msg, extra, 0)
    /\ IF RaisesKeyError \/ ~_check_log_level("INFO")
       THEN terminal' = <<>> /\ guru' = <<>>
       ELSE \E frames \in StackDepths :
              LET prefix == Prefix(blue("INFO"), _get_code_position(frames))
              IN  /\ terminal' = _output(prefix, msg, extra)
                  /\ guru' = IF GuruEnabled
                             THEN GuruCall("info", prefix, msg, extra) ELSE <<>>
    /\ LoggerStateUnchanged

info(msg, extra) ==
    /\ call' = Call("info", msg, extra, 0)
    /\ IF RaisesKeyError \/ ~_check_log_level("INFO")
       THEN terminal' = <<>> /\ guru' = <<>>
       ELSE \E frames \in StackDepths :
              LET prefix == Prefix(blue("INFO"), _get_code_position(frames))
              IN  /\ terminal' = <<>>
                  /\ guru' = IF GuruEnabled
                             THEN GuruCall("info", prefix, msg, extra) ELSE <<>>
    /\ LoggerStateUnchanged

warn(msg, extra) ==
    /\ call' = Call("warn", msg, extra, 0)
    /\ IF RaisesKeyError \/ ~_check_log_level("WARN")
       THEN terminal' = <<>> /\ guru' = <<>>
       ELSE \E frames \in StackDepths :
              LET prefix == Prefix(orange("WARN"), _get_code_position(frames))
              IN  /\ terminal' = _output(prefix, msg, extra)
                  /\ guru' = IF GuruEnabled
                             THEN GuruCall("warning", prefix, msg, extra) ELSE <<>>
    /\ LoggerStateUnchanged

error(msg, extra) ==
    /\ call' = Call("error", msg, extra, 0)
    /\ IF RaisesKeyError \/ ~_check_log_level("ERROR")
       THEN terminal' = <<>> /\ guru' = <<>>
       ELSE \E frames \in StackDepths :
              LET prefix == Prefix(red("ERROR"), _get_code_position(frames))
              IN  /\ terminal' = <<>>
                  /\ guru' = IF GuruEnabled
                             THEN GuruCall("error", prefix, msg, extra) ELSE <<>>
    /\ LoggerStateUnchanged

success(msg, extra) ==
    /\ call' = Call("success", msg, extra, 0)
    /\ IF RaisesKeyError \/ ~_check_log_level("SUCCESS")
       THEN terminal' = <<>> /\ guru' = <<>>
       ELSE \E frames \in StackDepths :
              LET prefix == Prefix(green("SUCCESS"), _get_code_position(frames))
              IN  /\ terminal' = <<>>
                  /\ guru' = IF GuruEnabled
                             THEN GuruCall("success", prefix, msg, extra) ELSE <<>>
    /\ LoggerStateUnchanged

template(msg, extra) ==
    /\ call' = Call("template", msg, extra, 0)
    /\ IF RaisesKeyError \/ ~_check_log_level("TEMPLATE")
       THEN terminal' = <<>> /\ guru' = <<>>
       ELSE \E frames \in StackDepths :
              LET prefix == Prefix(magenta("TEMPLATE"), _get_code_position(frames))
              IN  /\ terminal' = <<>>
                  /\ guru' = IF GuruEnabled
                             THEN GuruCall("success", prefix, msg, extra) ELSE <<>>
    /\ LoggerStateUnchanged

----------------------------------------------------------------------------
(* Logger.progress *)

spinner_frames == <<"f0", "f1", "f2", "f3", "f4", "f5", "f6", "f7", "f8", "f9">>

\* lines 185-188 with the comparison one frame early
AdvanceSpindex_short(i) == IF i = Len(spinner_frames) - 2 THEN 0 ELSE i + 1

\* lines 185-188
AdvanceSpindex(i) == IF i = Len(spinner_frames) - 1 THEN 0 ELSE i + 1

_parse(msg) == IF msg.k = "text" THEN msg ELSE Text(Str(msg))

\* math.ceil where line 192 has math.floor
blocks_ceil(perc) == 0 - ((0 - perc) \div 5)

\* math.floor(perc / 5)
blocks(perc) == perc \div 5

\* math.ceil((100 - perc) / 5)
spaces(perc) == 0 - ((perc - 100) \div 5)

\* f'{perc:.4f}' of an integer: its digits and four zeros after the point
human(perc) == [whole |-> perc, fraction |-> <<0, 0, 0, 0>>]

\* the glyph of the frame before the advance
Glyph_stale(old, new) == magenta(spinner_frames[old + 1])

\* magenta(spinner_frames[self.spindex]), read after the advance (sequences
\* start at 1 here and at 0 in python)
Glyph(old, new) == magenta(spinner_frames[new + 1])

ProgressWrites(msg, perc, old, new) ==
    <<[kind |-> "write", text |-> <<"\\r", CLEAR>>],
      [kind |-> "flush"],
      [kind |-> "bar",
       filled |-> Repeat(bg_blue(" "), blocks(perc)),
       blank |-> Repeat(" ", spaces(perc)),
       glyph |-> Glyph(old, new),
       human |-> human(perc),
       message |-> blue(_parse(msg))],
      [kind |-> "flush"]>>

\* progress that leaves writing_progress as it was
progress_noflag(msg, perc) ==
    /\ nprogress < MaxProgress
    /\ spindex' = AdvanceSpindex(spindex)
    /\ terminal' = ProgressWrites(msg, perc, spindex, spindex')
    /\ writing_progress' = writing_progress
    /\ guru' = <<>>
    /\ call' = [op |-> "progress", msg |-> msg, extra |-> None, perc |-> perc,
                outcome |-> "returned"]
    /\ nprogress' = nprogress + 1
    /\ UNCHANGED <<CONSOLE_LOG_LEVEL, DEBUG, USE_GURU, val, decoded>>

progress(msg, perc) ==
    /\ nprogress < MaxProgress
    /\ spindex' = AdvanceSpindex(spindex)
    /\ terminal' = ProgressWrites(msg, perc, spindex, spindex')
    /\ writing_progress' = TRUE
    /\ guru' = <<>>
    /\ call' = [op |-> "progress", msg |-> msg, extra |-> None, perc |-> perc,
                outcome |-> "returned"]
    /\ nprogress' = nprogress + 1
    /\ UNCHANGED <<CONSOLE_LOG_LEVEL, DEBUG, USE_GURU, val, decoded>>

----------------------------------------------------------------------------
(* The settings object changes between calls *)

NoCall == [op |-> "settings", msg |-> None, extra |-> None, perc |-> 0,
           outcome |-> "returned"]

SetConsoleLogLevel(l) ==
    /\ CONSOLE_LOG_LEVEL' = l
    /\ call' = NoCall /\ terminal' = <<>> /\ guru' = <<>>
    /\ UNCHANGED <<DEBUG, USE_GURU, spindex, writing_progress, nprogress, val, decoded>>

SetDebug(d) ==
    /\ DEBUG' = d
    /\ call' = NoCall /\ terminal' = <<>> /\ guru' = <<>>
    /\ UNCHANGED <<CONSOLE_LOG_LEVEL, USE_GURU, spindex, writing_progress,
                   nprogress, val, decoded>>

----------------------------------------------------------------------------
(* The logger under its callers *)

Messages == {None, Text(<<104, 105>>), Bytes(<<195, 169>>)}

Extras == {None, Text(<<>>), Text(<<120>>)}

ProgressMessages == {Text(<<>>), Text(<<104, 105>>)}

BufferTexts == {Text(<<120>>)}

SamplePercents == {0 - OverRange, 0, 47, 100, 100 + OverRange}

Percents == (0 - OverRange)..(100 + OverRange)

\* Logger.__init__, with the settings and the import of loguru as they are
\* found
LoggerInit ==
    /\ CONSOLE_LOG_LEVEL \in ConfigLevels
    /\ DEBUG \in BOOLEAN
    /\ USE_GURU \in BOOLEAN
    /\ spindex = 0
    /\ writing_progress = FALSE
    /\ terminal = <<>>
    /\ guru = <<>>
    /\ call = [op |-> "__init__", msg |-> None, extra |-> None, perc |-> 0,
               outcome |-> "returned"]
    /\ nprogress = 0

Init == LoggerInit /\ val = None /\ decoded = <<>>

Next ==
    \/ \E msg \in BufferTexts : buffer(msg)
    \/ \E msg \in Messages, extra \in Extras : log(msg, extra)
    \/ \E msg \in Messages, extra \in Extras : info(msg, extra)
    \/ \E msg \in Messages, extra \in Extras : warn(msg, extra)
    \/ \E msg \in Messages, extra \in Extras : error(msg, extra)
    \/ \E msg \in Messages, extra \in Extras : success(msg, extra)
    \/ \E msg \in Messages, extra \in Extras : template(msg, extra)
    \/ \E msg \in ProgressMessages, perc \in SamplePercents : progress(msg, perc)
    \/ \E l \in ConfigLevels : SetConsoleLogLevel(l)
    \/ \E d \in BOOLEAN : SetDebug(d)

Spec == Init /\ [][Next]_vars

\* the logger driven by progress alone, over every percent
ProgressInit ==
    /\ Init
    /\ CONSOLE_LOG_LEVEL = "WARN" /\ DEBUG = FALSE /\ USE_GURU = TRUE

ProgressNext ==
    \E msg \in ProgressMessages, perc \in Percents : progress(msg, perc)

ProgressSpec == ProgressInit /\ [][ProgressNext]_vars

----------------------------------------------------------------------------
(* decode applied, and applied again to its own result *)

DecodeInit ==
    /\ LoggerInit
    /\ CONSOLE_LOG_LEVEL = "WARN" /\ DEBUG = FALSE /\ USE_GURU = TRUE
    /\ val \in DecodeInputs
    /\ decoded = <<>>

ApplyDecode ==
    /\ Len(decoded) < 2
    /\ decoded' = Append(decoded, decode(IF decoded = <<>> THEN val ELSE decoded[1]))
    /\ UNCHANGED <<val, loggerVars>>

DecodeNext == ApplyDecode

DecodeSpec == DecodeInit /\ [][DecodeNext]_vars

----------------------------------------------------------------------------
(* What the properties below speak of *)

\* the severity each leveled method calls with
OpLevel ==
    [log |-> "LOG", info |-> "INFO", success |-> "SUCCESS",
     template |-> "TEMPLATE", warn |-> "WARN", error |-> "ERROR"]

LeveledOps == DOMAIN OpLevel

\* the loguru method the spec assigns to each forwarding method
SinkMethod ==
    [info |-> "info", success |-> "success", template |-> "success",
     warn |-> "warning", error |-> "error"]

\* the stream writes among the entries of a call (flushes write nothing)
Writes(t) == SelectSeq(t, LAMBDA e : e.kind # "flush")

\* the last call was leveled, under a configured level name
Filtered ==
    call.op \in LeveledOps /\ CONSOLE_LOG_LEVEL \in LevelNames

BelowThreshold ==
    Filtered /\ LOG_LEVELS[OpLevel[call.op]] < LOG_LEVELS[CONSOLE_LOG_LEVEL]

Emitting ==
    Filtered /\ LOG_LEVELS[OpLevel[call.op]] >= LOG_LEVELS[CONSOLE_LOG_LEVEL]

\* the code points of 'null'
NullWord == <<110, 117, 108, 108>>

\* s is 'NULL' between two runs of whitespace
TrimsToNULL(s) ==
    \E i \in 0..(Len(s) - 4) :
        /\ SubSeq(s, i + 1, i + 4) = NULL
        /\ \A j \in (1..i) \cup ((i + 5)..Len(s)) : IsSpace(s[j])

----------------------------------------------------------------------------
(* The claims *)

\* C1: a leveled call whose severity is strictly below the threshold
\* configured at the moment of the call writes nothing to the stream, calls
\* the sink not at all, and leaves spindex and writing_progress as they were.
C1_BelowThresholdNoEffect ==
    [][BelowThreshold' =>
          /\ terminal' = <<>>
          /\ guru' = <<>>
          /\ spindex' = spindex
          /\ writing_progress' = writing_progress]_vars

\* a success call under threshold WARN, the sink available and DEBUG off,
\* after the threshold was in use for progress calls
C1_Witness ==
    /\ call.op = "success" /\ CONSOLE_LOG_LEVEL = "WARN"
    /\ USE_GURU /\ DEBUG = FALSE
    /\ terminal = <<>> /\ guru = <<>> /\ nprogress > 0

\* C2: a leveled call at or above the threshold makes exactly one stream
\* write when it is log or warn and none when it is info, success, template
\* or error, whatever DEBUG and USE_GURU are.
C2_StreamWrites ==
    Emitting =>
        Len(Writes(terminal)) = IF call.op \in {"log", "warn"} THEN 1 ELSE 0

C2_Witness ==
    /\ Emitting /\ call.op = "warn" /\ DEBUG = TRUE /\ USE_GURU = FALSE
    /\ Len(terminal) = 1 /\ terminal[1].kind = "print"

\* C3: a leveled call at or above the threshold calls the sink exactly once
\* iff it is not log, the sink is available and DEBUG is False, and never
\* more; the method called is the level's, template going to success; with
\* DEBUG true nothing reaches the sink and log and warn still write.
C3_SinkCalls ==
    Emitting =>
        /\ Len(guru) = IF call.op # "log" /\ USE_GURU /\ DEBUG = FALSE THEN 1 ELSE 0
        /\ \A i \in 1..Len(guru) : guru[i].method = SinkMethod[call.op]
        /\ DEBUG = TRUE /\ call.op \in {"log", "warn"} => Len(Writes(terminal)) = 1

C3_Witness ==
    /\ Emitting /\ call.op = "template"
    /\ Len(guru) = 1 /\ guru[1].method = "success"

\* C4: with extra omitted, the extra segment of every text a leveled call
\* emits, on the stream and to the sink, is empty, never 'None' or 'null'.
C4_ExtraOmittedIsEmpty ==
    call.op \in LeveledOps /\ call.extra = None =>
        /\ \A i \in 1..Len(terminal) :
              /\ terminal[i].extra = <<>>
              /\ terminal[i].extra \notin {NoneWord, NullWord}
        /\ \A i \in 1..Len(guru) :
              /\ guru[i].extra = <<>>
              /\ guru[i].extra \notin {NoneWord, NullWord}

\* C5 as stated: eleven progress calls on a fresh logger bring spindex back
\* to the 0 it started from.
C5_ElevenCallsReturn ==
    nprogress = 11 => spindex = 0

\* C5 amended: ten progress calls on a fresh logger, with any other calls
\* between them, bring spindex back to the 0 it started from, after it has
\* been 1, 2, ..., 9 (the eleventh call leaves it at 1).
C5_TenCallsReturn ==
    /\ nprogress < 10 => spindex = nprogress
    /\ nprogress = 10 => spindex = 0
    /\ nprogress = 11 => spindex = 1

C5_Witness ==
    nprogress = 10 /\ spindex = 0 /\ call.op = "progress"

\* C6: spindex is always in 0..9; a progress call moves it to (old + 1) mod
\* 10 and writes the frame at the new index as its glyph; no other call
\* changes it.
C6_SpinnerIndex ==
    /\ [](spindex \in 0..9)
    /\ [][IF nprogress' # nprogress
          THEN /\ spindex' = (spindex + 1) % 10
               /\ Writes(terminal')[2].glyph = magenta(spinner_frames[spindex' + 1])
          ELSE spindex' = spindex]_vars

\* a progress call that wrapped the index, then a leveled call
C6_Witness ==
    nprogress = 10 /\ spindex = 0 /\ call.op = "warn"

\* C7: for an integer percent p in 0..100 the bar holds floor(p/5) filled
\* cells, then ceil((100-p)/5) spaces, 20 cells in all.
C7_BarWidth ==
    call.op = "progress" /\ call.perc \in 0..100 =>
        LET bar == Writes(terminal)[2]
            b == Len(bar.filled)
            sp == Len(bar.blank)
            p == call.perc
        IN  /\ 5 * b <= p /\ p < 5 * (b + 1)
            /\ 5 * (sp - 1) < 100 - p /\ 100 - p <= 5 * sp
            /\ b + sp = 20
            /\ p = 0 => b = 0 /\ sp = 20
            /\ p = 100 => b = 20 /\ sp = 0
            /\ p = 47 => b = 9 /\ sp = 11

C7_Witness ==
    /\ call.op = "progress" /\ call.perc = 47
    /\ Len(terminal[3].filled) = 9 /\ Len(terminal[3].blank) = 11

\* C8: when reading the threshold raises, a leveled call behaves as under
\* WARN (log, info, success and template emit nothing, warn and error emit
\* as usual) and returns normally.
C8_UnreadableIsWarn ==
    call.op \in LeveledOps /\ CONSOLE_LOG_LEVEL = Unreadable =>
        /\ call.outcome = "returned"
        /\ call.op \in {"log", "info", "success", "template"} =>
              terminal = <<>> /\ guru = <<>>
        /\ call.op \in {"warn", "error"} =>
              /\ Len(Writes(terminal)) = IF call.op = "warn" THEN 1 ELSE 0
              /\ Len(guru) = IF USE_GURU /\ DEBUG = FALSE THEN 1 ELSE 0
              /\ \A i \in 1..Len(guru) : guru[i].method = SinkMethod[call.op]

C8_Witness ==
    /\ call.op = "warn" /\ CONSOLE_LOG_LEVEL = Unreadable
    /\ Len(terminal) = 1 /\ Len(guru) = 1 /\ call.outcome = "returned"

\* C9 as stated: decode gives None for None, '' and a value whose trimmed
\* text is 'NULL', gives every other text back unchanged, and applied twice
\* gives what it gives applied once.
C9_DecodeTwiceSame ==
    /\ Len(decoded) >= 1 =>
          /\ val.k = "none" \/ Str(val) = <<>> \/ TrimsToNULL(Str(val)) =>
                decoded[1] = None
          /\ val.k = "text" /\ val.s # <<>> /\ ~TrimsToNULL(val.s) =>
                decoded[1] = val
    /\ Len(decoded) = 2 => decoded[2] = decoded[1]

\* C9 amended: decode gives None for None, '' and a value whose trimmed
\* text is 'NULL', gives every other text back unchanged, and on None and
\* on text applied twice gives what it gives applied once (on bytes it may
\* not: b'NULL' decodes to 'NULL', which decodes to None).
C9_DecodeTextTwiceSame ==
    /\ Len(decoded) >= 1 =>
          /\ val.k = "none" \/ Str(val) = <<>> \/ TrimsToNULL(Str(val)) =>
                decoded[1] = None
          /\ val.k = "text" /\ val.s # <<>> /\ ~TrimsToNULL(val.s) =>
                decoded[1] = val
    /\ Len(decoded) = 2 /\ val.k \in {"none", "text"} => decoded[2] = decoded[1]

\* ' NULL' decoded twice
C9_Witness ==
    /\ val = Text(<<32>> \o NULL)
    /\ decoded = <<None, None>>

\* C10: writing_progress is false until the first progress call; a progress
\* call sets it and writes its bar under every threshold; once true it stays
\* true.
C10_WritingProgress ==
    /\ [](nprogress = 0 => writing_progress = FALSE)
    /\ [](call.op = "progress" =>
            /\ writing_progress = TRUE
            /\ Len(Writes(terminal)) = 2
            /\ Writes(terminal)[2].kind = "bar")
    /\ [][writing_progress = TRUE => writing_progress' = TRUE]_vars

\* the second progress call, under threshold ERROR
C10_Witness ==
    /\ call.op = "progress" /\ CONSOLE_LOG_LEVEL = "ERROR"
    /\ nprogress = 2 /\ writing_progress = TRUE /\ Len(terminal) = 4

============================================================================
